---- MODULE Spec2Model ----
(***************************************************************************)
(* Model of the cloudense deployment library (src/src/aws).                *)
(*                                                                         *)
(*  - Function Deployer: deployFunction, in the two implementations the    *)
(*    repository holds: the one that waits for the code update to settle   *)
(*    before publishing (impl = "waiting") and the one that publishes      *)
(*    right after the upload (impl = "direct").                            *)
(*  - Distribution Deployer: getDistributionStatus, deployLamdaEdgeFunction*)
(*    and the cache-behavior rewrite.                                      *)
(*                                                                         *)
(* Every cloud API call is asynchronous: a call is "issued" when the       *)
(* command is sent and its response is handled by a later action.  Timers  *)
(* (setTimeout) carry no state and are folded into the handler that arms   *)
(* them.                                                                   *)
(***************************************************************************)
EXTENDS Integers, Sequences, FiniteSets, TLC

VARIABLES
    \* ---- Function Deployer ----
    impl,             \* which deployFunction is loaded: "waiting" | "direct"
    publish,          \* the caller's publish argument
    lpc,              \* position of the deployFunction promise chain
    filePromise,      \* readZipAsBuffer: "none" | "pending" | "fulfilled" | "rejected"
    checkPromise,     \* checkFunction:   "none" | "pending" | "fulfilled" | "rejected"
    lastFunctionData, \* configuration read by the existence check
    newFunctionData,  \* configuration returned by Update Function Code
    stableData,       \* configuration awaitStatusSuccess resolved to
    ltries,           \* remaining-tries counter of awaitStatusSuccess
    updateCodeCalls,  \* Update Function Code calls issued
    statusReads,      \* Get Function Configuration calls issued by the wait loop
    seen,             \* LastUpdateStatus values the wait loop's reads reported
    publishCalls,     \* Publish Version calls issued
    publishRevision,  \* RevisionId carried by the Publish Version call
    providerVersion,  \* Version of the Publish Version response
    result,           \* settlement of the promise deployFunction returned
    \* ---- Distribution Deployer ----
    distConfig,       \* the service's CacheBehaviors of the distribution
    distETag,         \* the service's current entity tag
    distStatus,       \* the service's Distribution.Status
    op,               \* public operation invoked
    args,             \* [target, arnWithoutVersion, lambdaFunctionVersion]
    epc,              \* position of the distribution promise chain
    fetched,          \* [ETag, CacheBehaviors] as returned by Get Distribution Config
    pushed,           \* [IfMatch, CacheBehaviors] sent by Update Distribution
    etries,           \* remaining-tries counter of checkStatus
    configReads,      \* Get Distribution Config calls issued
    updateCalls,      \* Update Distribution calls issued
    distReads,        \* Get Distribution calls issued
    seenDist,         \* Distribution.Status values the reads reported
    returned,         \* what the public operation handed to its caller
    settled,          \* settlement of the operation's internal promise chain
    logged,           \* final console message of deployLamdaEdgeFunction
    \* ---- Credential Resolver ----
    authImpl,         \* which getCredentials is loaded: "null" | "throwing"
    authType,         \* config.auth.type
    credentials,      \* what getCredentials gave the client being built
    \* ---- two callers of deployLamdaEdgeFunction on one distribution ----
    race              \* per caller: position, arguments, what it fetched and pushed

lambdaVars == <<impl, publish, lpc, filePromise, checkPromise, lastFunctionData,
                newFunctionData, stableData, ltries, updateCodeCalls, statusReads,
                seen, publishCalls, publishRevision, providerVersion, result>>

distVars == <<distConfig, distETag, distStatus, op, args, epc, fetched,
              pushed, etries, configReads, updateCalls, distReads, seenDist,
              returned, settled, logged>>

restVars == <<authImpl, authType, credentials, race>>

vars == <<lambdaVars, distVars, restVars>>

----------------------------------------------------------------------------
(* Credential Resolver                                                     *)

ErrAuth == "Authentication failed: Could not get credentials."

\* getCredentials of Auth.ts: an unknown type gives null
GetCredentialsNull(type) ==
    IF type = "fromIni" THEN "provider" ELSE "null"

\* getCredentials of the other Auth module: an unknown type throws
GetCredentialsThrowing(type) ==
    IF type = "fromIni" THEN "provider" ELSE "throw"

\* Auth.getCredentials(config.auth) as getLambdaClient and getCloudFrontClient
\* call it while building the client
GetCredentials ==
    IF authImpl = "null" THEN GetCredentialsNull(authType)
    ELSE GetCredentialsThrowing(authType)

----------------------------------------------------------------------------
(* Function Deployer                                                       *)

\* enum Publish
Never == "NEVER"
WhenChanged == "WHEN_CHANGED"
Force == "FORCE"
Publish == {Never, WhenChanged, Force}

\* LastUpdateStatus of the Lambda SDK; NoStatus is an absent field.
InProgress == "InProgress"
Successful == "Successful"
Failed == "Failed"
NoStatus == "absent"
LastUpdateStatus == {InProgress, Successful, Failed}

\* Values the provider may report (model universe).  The service names the
\* function in every configuration it returns for an existing function.
FunctionNames == {"fn"}
NoName == ""
Hashes == {"sha-a", "sha-b"}
RevisionIds == {"rev-1", "rev-2"}
Versions == {"1", "2"}
NoVersion == ""
NoData == [FunctionName |-> NoName, CodeSha256 |-> "", RevisionId |-> "",
           LastUpdateStatus |-> NoStatus]

FunctionData(names, statuses) ==
    [FunctionName : names, CodeSha256 : Hashes, RevisionId : RevisionIds,
     LastUpdateStatus : statuses]

\* thrown / rejected values
ErrFileRead == "ENOENT"
ErrNotFound == "ResourceNotFoundException"
ErrNoName == "No function name in function configuration."
ErrExhausted == "Retries exhausted while waiting for status Success, giving up."
ErrFailed == "Encountered status Failed while waiting for LastUpdateStatus Success, terminating."
ErrNoVersion == "Publish version failed: Could not retrieve new version"

Resolved(v) == [kind |-> "resolved", value |-> v]
Rejected(e) == [kind |-> "rejected", value |-> e]
Pending == [kind |-> "pending", value |-> ""]

\* tries argument of awaitStatusSuccess in publishVersion
FunctionTries == 100

\* deployFunction's .catch handler: the Never marker becomes a success of ''
Catch(err) ==
    IF err = Never THEN Resolved("") ELSE Rejected(err)

\* publishOrReject with the WhenChanged comparison inverted
PublishOrReject_Inverted(policy, last, new) ==
    IF policy = Never THEN Rejected(Never)
    ELSE IF policy = Force THEN Resolved(new)
    ELSE IF last.CodeSha256 # new.CodeSha256 THEN Rejected(WhenChanged)
    ELSE Resolved(new)

\* publishOrReject(publish)([lastFunctionData, newFunctionData])
PublishOrReject(policy, last, new) ==
    IF policy = Never THEN Rejected(Never)
    ELSE IF policy = Force THEN Resolved(new)
    ELSE IF last.CodeSha256 = new.CodeSha256 THEN Rejected(WhenChanged)
    ELSE Resolved(new)

\* the policy each deployFunction hands to publishOrReject
PolicyOfWaiting == Force
PolicyOfDirect == publish
PolicyArgument == IF impl = "waiting" THEN PolicyOfWaiting ELSE PolicyOfDirect

\* awaitStatusSuccess without the Failed test: a failed update is polled again
AwaitStatusSuccess_IgnoresFailed(tries, response) ==
    IF tries <= 0 THEN "exhausted"
    ELSE IF response.LastUpdateStatus = Successful THEN "success"
    ELSE "again"

\* awaitStatusSuccess resolving with the last response when the tries run out
AwaitStatusSuccess_ResolvesWhenExhausted(tries, response) ==
    IF tries <= 0 THEN "success"
    ELSE IF response.LastUpdateStatus = Failed THEN "failed"
    ELSE IF response.LastUpdateStatus = Successful THEN "success"
    ELSE "again"

\* awaitStatusSuccess's response handler: what one status read leads to
AwaitStatusSuccess(tries, response) ==
    IF tries <= 0 THEN "exhausted"
    ELSE IF response.LastUpdateStatus = Failed THEN "failed"
    ELSE IF response.LastUpdateStatus = Successful THEN "success"
    ELSE "again"

\* publishVersion's handler of the Publish Version response
PublishedVersion(version) ==
    IF version = NoVersion THEN Rejected(ErrNoVersion) ELSE Resolved(version)

\* deployFunction(config, functionName, description, zipFile, publish):
\* starts the file read and the existence check and returns the chain's promise
DeployFunction(p) ==
    /\ lpc = "idle"
    /\ publish' = p
    /\ credentials' = GetCredentials
    /\ IF GetCredentials = "throw"
       THEN /\ result' = Rejected(ErrAuth)
            /\ lpc' = "done"
            /\ UNCHANGED <<filePromise, checkPromise>>
       ELSE /\ filePromise' = "pending"
            /\ checkPromise' = "pending"
            /\ result' = Pending
            /\ lpc' = "joining"
    /\ UNCHANGED <<impl, lastFunctionData, newFunctionData, stableData, ltries,
                   updateCodeCalls, statusReads, seen, publishCalls,
                   publishRevision, providerVersion>>
    /\ UNCHANGED <<distVars, authImpl, authType, race>>

\* readZipAsBuffer settles; a rejection rejects Promise.all at once, and a
\* settlement that comes after Promise.all was rejected changes nothing else
ReadZipAsBuffer(ok) ==
    /\ lpc \in {"joining", "done"}
    /\ filePromise = "pending"
    /\ IF ok \/ lpc = "done"
       THEN /\ filePromise' = IF ok THEN "fulfilled" ELSE "rejected"
            /\ UNCHANGED <<result, lpc>>
       ELSE /\ filePromise' = "rejected"
            /\ result' = Catch(ErrFileRead)
            /\ lpc' = "done"
    /\ UNCHANGED <<impl, publish, checkPromise, lastFunctionData, newFunctionData,
                   stableData, ltries, updateCodeCalls, statusReads, seen,
                   publishCalls, publishRevision, providerVersion>>
    /\ UNCHANGED <<distVars, restVars>>

\* checkFunction settles: the function's configuration, or "not found"; a
\* settlement that comes after Promise.all was rejected changes nothing else
CheckFunction(found, response) ==
    /\ lpc \in {"joining", "done"}
    /\ checkPromise = "pending"
    /\ IF found
       THEN /\ checkPromise' = "fulfilled"
            /\ lastFunctionData' = response
            /\ UNCHANGED <<result, lpc>>
       ELSE /\ checkPromise' = "rejected"
            /\ result' = IF lpc = "done" THEN result ELSE Catch(ErrNotFound)
            /\ lpc' = "done"
            /\ UNCHANGED lastFunctionData
    /\ UNCHANGED <<impl, publish, filePromise, newFunctionData, stableData, ltries,
                   updateCodeCalls, statusReads, seen, publishCalls,
                   publishRevision, providerVersion>>
    /\ UNCHANGED <<distVars, restVars>>

\* deployCode started as soon as the existence check has answered
DeployCode_WithoutFile ==
    /\ lpc = "joining"
    /\ checkPromise = "fulfilled"
    /\ updateCodeCalls' = updateCodeCalls + 1
    /\ lpc' = "updating"
    /\ UNCHANGED <<impl, publish, filePromise, checkPromise, lastFunctionData,
                   newFunctionData, stableData, ltries, statusReads, seen,
                   publishCalls, publishRevision, providerVersion, result>>
    /\ UNCHANGED <<distVars, restVars>>

\* Promise.all resolved: deployCode issues Update Function Code
DeployCode ==
    /\ lpc = "joining"
    /\ filePromise = "fulfilled"
    /\ checkPromise = "fulfilled"
    /\ updateCodeCalls' = updateCodeCalls + 1
    /\ lpc' = "updating"
    /\ UNCHANGED <<impl, publish, filePromise, checkPromise, lastFunctionData,
                   newFunctionData, stableData, ltries, statusReads, seen,
                   publishCalls, publishRevision, providerVersion, result>>
    /\ UNCHANGED <<distVars, restVars>>

\* publishVersion of the waiting implementation, up to its first status read
StartPublishWaiting(functionData) ==
    IF functionData.FunctionName = NoName
    THEN /\ result' = Catch(ErrNoName)
         /\ lpc' = "done"
         /\ UNCHANGED <<ltries, statusReads, publishCalls, publishRevision>>
    ELSE /\ ltries' = FunctionTries
         /\ statusReads' = statusReads + 1
         /\ lpc' = "waiting"
         /\ UNCHANGED <<result, publishCalls, publishRevision>>

\* publishVersion of the direct implementation: issues Publish Version at once
StartPublishDirect(functionData) ==
    /\ publishCalls' = publishCalls + 1
    /\ publishRevision' = functionData.RevisionId
    /\ lpc' = "publishing"
    /\ UNCHANGED <<result, ltries, statusReads>>

\* Update Function Code answered: deployCode's handler, publishOrReject, and
\* either the catch handler or the start of publishVersion
UpdateCodeResponse(response) ==
    /\ lpc = "updating"
    /\ newFunctionData' = response
    /\ LET decision == PublishOrReject(PolicyArgument, lastFunctionData, response)
       IN  IF decision.kind = "rejected"
           THEN /\ result' = Catch(decision.value)
                /\ lpc' = "done"
                /\ UNCHANGED <<ltries, statusReads, publishCalls, publishRevision>>
           ELSE IF impl = "waiting"
                THEN StartPublishWaiting(decision.value)
                ELSE StartPublishDirect(decision.value)
    /\ UNCHANGED <<impl, publish, filePromise, checkPromise, lastFunctionData,
                   stableData, updateCodeCalls, seen, providerVersion>>
    /\ UNCHANGED <<distVars, restVars>>

\* Get Function Configuration answered inside awaitStatusSuccess
StatusResponse(response) ==
    /\ lpc = "waiting"
    /\ seen' = seen \cup {response.LastUpdateStatus}
    /\ LET outcome == AwaitStatusSuccess(ltries, response)
       IN  CASE outcome = "exhausted" ->
                  /\ result' = Catch(ErrExhausted)
                  /\ lpc' = "done"
                  /\ UNCHANGED <<ltries, statusReads, stableData, publishCalls,
                                 publishRevision>>
             [] outcome = "failed" ->
                  /\ result' = Catch(ErrFailed)
                  /\ lpc' = "done"
                  /\ UNCHANGED <<ltries, statusReads, stableData, publishCalls,
                                 publishRevision>>
             [] outcome = "success" ->
                  /\ stableData' = response
                  /\ publishCalls' = publishCalls + 1
                  /\ publishRevision' = response.RevisionId
                  /\ lpc' = "publishing"
                  /\ UNCHANGED <<ltries, statusReads, result>>
             [] outcome = "again" ->
                  /\ ltries' = ltries - 1
                  /\ statusReads' = statusReads + 1
                  /\ UNCHANGED <<lpc, stableData, publishCalls, publishRevision,
                                 result>>
    /\ UNCHANGED <<impl, publish, filePromise, checkPromise, lastFunctionData,
                   newFunctionData, updateCodeCalls, providerVersion>>
    /\ UNCHANGED <<distVars, restVars>>

\* Publish Version answered
PublishResponse(version) ==
    /\ lpc = "publishing"
    /\ providerVersion' = version
    /\ LET outcome == PublishedVersion(version)
       IN  result' = IF outcome.kind = "rejected" THEN Catch(outcome.value) ELSE outcome
    /\ lpc' = "done"
    /\ UNCHANGED <<impl, publish, filePromise, checkPromise, lastFunctionData,
                   newFunctionData, stableData, ltries, updateCodeCalls, statusReads,
                   seen, publishCalls, publishRevision>>
    /\ UNCHANGED <<distVars, restVars>>

----------------------------------------------------------------------------
(* Distribution Deployer                                                   *)

\* Strings that are taken apart (startsWith) or built (+) are sequences of
\* characters.
Colon == <<":">>
StartsWith(s, prefix) ==
    /\ Len(prefix) <= Len(s)
    /\ SubSeq(s, 1, Len(prefix)) = prefix

\* tries arguments of checkStatus
StatusTries == 10
DeployTries == 100

\* Model universe of the distribution's configuration.
MaxRules == 2     \* cache-behavior rules of a distribution
MaxAssoc == 2     \* function associations of a distribution, over all its rules
MaxETag == 3      \* entity tags the service hands out

ArnPrefixes == {<<"f">>, <<"f", "g">>}
ARNs == {<<"f">>, <<"f", ":", "1">>, <<"f", "g", ":", "1">>, <<"g", ":", "1">>}
FunctionVersions == {<<"7">>, <<"8">>}
Target == [pathPattern |-> "/api/*", targetOrigin |-> "origin-a",
           eventType |-> "viewer-request"]
RuleKeys == {<<"/api/*", "origin-a">>, <<"/api/*", "origin-b">>,
             <<"/img/*", "origin-a">>}
Associations ==
    [LambdaFunctionARN : ARNs, EventType : {"viewer-request"}, IncludeBody : {FALSE}]
    \cup {[LambdaFunctionARN |-> <<"f", ":", "1">>, EventType |-> "origin-request",
           IncludeBody |-> TRUE]}

\* A list as the service reports it: Quantity is the number of Items.
ListOf(items) == [Quantity |-> Len(items), Items |-> items]

RECURSIVE SeqsUpTo(_, _)
SeqsUpTo(S, n) ==
    IF n = 0 THEN {<<>>}
    ELSE LET shorter == SeqsUpTo(S, n - 1)
         IN  shorter \cup {Append(q, x) : q \in shorter, x \in S}

CacheBehaviorOf(key, assocs) ==
    [PathPattern |-> key[1], TargetOriginId |-> key[2],
     LambdaFunctionAssociations |-> ListOf(assocs)]

\* rule lists of at most k rules holding at most m associations together
RECURSIVE RuleLists(_, _)
RuleLists(k, m) ==
    IF k = 0 THEN {<<>>}
    ELSE {<<>>} \cup
         UNION { { <<CacheBehaviorOf(key, assocs)>> \o rest :
                      rest \in RuleLists(k - 1, m - Len(assocs)) } :
                  key \in RuleKeys, assocs \in SeqsUpTo(Associations, m) }

CacheBehaviorsSet(k, m) == { ListOf(rules) : rules \in RuleLists(k, m) }

NoConfig == ListOf(<<>>)
NoResponse == [ETag |-> 0, CacheBehaviors |-> NoConfig]
NoArgs == [target |-> Target, arnWithoutVersion |-> <<>>,
           lambdaFunctionVersion |-> <<>>]

\* updateLambdaFunctionAssociation appending the version to the ARN it found
UpdateLambdaFunctionAssociation_AppendsToOld(arnWithoutVersion, lambdaFunctionVersion, item) ==
    IF /\ item.LambdaFunctionARN # <<>>
       /\ StartsWith(item.LambdaFunctionARN, arnWithoutVersion)
    THEN [item EXCEPT !.LambdaFunctionARN =
                          item.LambdaFunctionARN \o Colon \o lambdaFunctionVersion]
    ELSE item

\* updateLambdaFunctionAssociation rewriting only an unversioned ARN
UpdateLambdaFunctionAssociation_ExactMatch(arnWithoutVersion, lambdaFunctionVersion, item) ==
    IF /\ item.LambdaFunctionARN # <<>>
       /\ item.LambdaFunctionARN = arnWithoutVersion
    THEN [item EXCEPT !.LambdaFunctionARN =
                          arnWithoutVersion \o Colon \o lambdaFunctionVersion]
    ELSE item

\* updateLambdaFunctionAssociation(arnWithoutVersion, lambdaFunctionVersion)(item)
UpdateLambdaFunctionAssociation(arnWithoutVersion, lambdaFunctionVersion, item) ==
    IF /\ item.LambdaFunctionARN # <<>>
       /\ StartsWith(item.LambdaFunctionARN, arnWithoutVersion)
    THEN [item EXCEPT !.LambdaFunctionARN =
                          arnWithoutVersion \o Colon \o lambdaFunctionVersion]
    ELSE item

\* updateLambdaFunctionAssociations(arnWithoutVersion, lambdaFunctionVersion, items)
UpdateLambdaFunctionAssociations(arnWithoutVersion, lambdaFunctionVersion, items) ==
    IF items.Quantity > 0 /\ Len(items.Items) > 0
    THEN [items EXCEPT !.Items =
            [i \in 1..Len(items.Items) |->
                UpdateLambdaFunctionAssociation(arnWithoutVersion,
                                                lambdaFunctionVersion,
                                                items.Items[i])]]
    ELSE items

\* updateCacheBehavior selecting the rule by its path pattern alone
UpdateCacheBehavior_PathOnly(target, arnWithoutVersion, lambdaFunctionVersion, item) ==
    IF item.PathPattern = target.pathPattern
    THEN [item EXCEPT !.LambdaFunctionAssociations =
            UpdateLambdaFunctionAssociations(arnWithoutVersion,
                                             lambdaFunctionVersion,
                                             item.LambdaFunctionAssociations)]
    ELSE item

\* updateCacheBehavior(target, arnWithoutVersion, lambdaFunctionVersion)(item)
UpdateCacheBehavior(target, arnWithoutVersion, lambdaFunctionVersion, item) ==
    IF /\ item.PathPattern = target.pathPattern
       /\ item.TargetOriginId = target.targetOrigin
    THEN [item EXCEPT !.LambdaFunctionAssociations =
            UpdateLambdaFunctionAssociations(arnWithoutVersion,
                                             lambdaFunctionVersion,
                                             item.LambdaFunctionAssociations)]
    ELSE item

\* updateCacheBehaviors(target, arnWithoutVersion, lambdaFunctionVersion, items)
UpdateCacheBehaviors(target, arnWithoutVersion, lambdaFunctionVersion, items) ==
    IF items.Quantity > 0 /\ Len(items.Items) > 0
    THEN [items EXCEPT !.Items =
            [i \in 1..Len(items.Items) |->
                UpdateCacheBehavior(target, arnWithoutVersion,
                                    lambdaFunctionVersion, items.Items[i])]]
    ELSE items

\* updateCacheBehaviorLambdaFunctionVersion(target, arn, version)(response):
\* the two console.log calls read CacheBehaviors.Items[0].LambdaFunctionAssociations,
\* a TypeError when the rule list is empty
UpdateCacheBehaviorLambdaFunctionVersion(target, arnWithoutVersion, lambdaFunctionVersion, response) ==
    IF Len(response.CacheBehaviors.Items) = 0
    THEN Rejected("TypeError")
    ELSE Resolved([ETag |-> response.ETag,
                   CacheBehaviors |->
                       UpdateCacheBehaviors(target, arnWithoutVersion,
                                            lambdaFunctionVersion,
                                            response.CacheBehaviors)])

\* deployDistributionConfig(distributionId, client)([eTag, distributionConfig]):
\* the Update Distribution command
DeployDistributionConfig(pair) ==
    [IfMatch |-> pair.ETag, CacheBehaviors |-> pair.CacheBehaviors]

\* checkStatus's response handler: what one Get Distribution read leads to
CheckStatus(tries, status) ==
    IF tries <= 0 THEN "false"
    ELSE IF status = "Deployed" THEN "true"
    ELSE "again"

LogDeployed == "Distribution was deployed successfully!"
LogGivingUp == "Distribution is still not deployed. Giving up."

\* what the chain's outcome means for each public operation: getDistributionStatus
\* returned the chain's promise; deployLamdaEdgeFunction only logs the outcome
ChainEnds(deployed) ==
    IF op = "getDistributionStatus"
    THEN /\ settled' = Resolved(deployed)
         /\ UNCHANGED logged
    ELSE /\ settled' = Resolved("undefined")
         /\ logged' = IF deployed THEN LogDeployed ELSE LogGivingUp

\* getDistributionStatus(config, distributionId): returns checkStatus(.., 10),
\* which issues the first Get Distribution
GetDistributionStatus ==
    /\ epc = "idle"
    /\ op' = "getDistributionStatus"
    /\ credentials' = GetCredentials
    /\ IF GetCredentials = "throw"
       THEN /\ returned' = "thrown"
            /\ epc' = "done"
            /\ UNCHANGED <<etries, distReads>>
       ELSE /\ etries' = StatusTries
            /\ distReads' = distReads + 1
            /\ returned' = "promise"
            /\ epc' = "polling"
    /\ UNCHANGED <<distConfig, distETag, distStatus, args, fetched, pushed,
                   configReads, updateCalls, seenDist, settled, logged>>
    /\ UNCHANGED <<lambdaVars, authImpl, authType, race>>

\* deployLamdaEdgeFunction(config, distributionId, target, arnWithoutVersion,
\* lambdaFunctionVersion): issues Get Distribution Config, builds the chain and
\* returns nothing (the chain's promise is dropped)
DeployLamdaEdgeFunction(arnWithoutVersion, lambdaFunctionVersion) ==
    /\ epc = "idle"
    /\ op' = "deployLamdaEdgeFunction"
    /\ args' = [target |-> Target, arnWithoutVersion |-> arnWithoutVersion,
                lambdaFunctionVersion |-> lambdaFunctionVersion]
    /\ credentials' = GetCredentials
    /\ IF GetCredentials = "throw"
       THEN /\ returned' = "thrown"
            /\ epc' = "done"
            /\ UNCHANGED configReads
       ELSE /\ configReads' = configReads + 1
            /\ returned' = "undefined"
            /\ epc' = "fetching"
    /\ UNCHANGED <<distConfig, distETag, distStatus, fetched, pushed, etries,
                   updateCalls, distReads, seenDist, settled, logged>>
    /\ UNCHANGED <<lambdaVars, authImpl, authType, race>>

\* Get Distribution Config answered: the rewrite, then deployDistributionConfig
\* issues Update Distribution
ConfigResponse ==
    /\ epc = "fetching"
    /\ LET response == [ETag |-> distETag, CacheBehaviors |-> distConfig]
           updated == UpdateCacheBehaviorLambdaFunctionVersion(
                          args.target, args.arnWithoutVersion,
                          args.lambdaFunctionVersion, response)
       IN  /\ fetched' = response
           /\ IF updated.kind = "rejected"
              THEN /\ settled' = updated
                   /\ epc' = "done"
                   /\ UNCHANGED <<pushed, updateCalls>>
              ELSE /\ pushed' = DeployDistributionConfig(updated.value)
                   /\ updateCalls' = updateCalls + 1
                   /\ epc' = "pushing"
                   /\ UNCHANGED settled
    /\ UNCHANGED <<distConfig, distETag, distStatus, op, args, etries, configReads,
                   distReads, seenDist, returned, logged>>
    /\ UNCHANGED <<lambdaVars, restVars>>

\* Update Distribution answered.  The service applies the configuration when
\* IfMatch is its current entity tag and rejects the call otherwise; on success
\* the chain goes on to checkStatus(.., 100, 5000), on failure it rejects.
UpdateResponse ==
    /\ epc = "pushing"
    /\ IF pushed.IfMatch = distETag
       THEN /\ distConfig' = pushed.CacheBehaviors
            /\ distETag' = distETag + 1
            /\ distStatus' = "InProgress"
            /\ etries' = DeployTries
            /\ distReads' = distReads + 1
            /\ epc' = "polling"
            /\ UNCHANGED settled
       ELSE /\ settled' = Rejected("PreconditionFailed")
            /\ epc' = "done"
            /\ UNCHANGED <<distConfig, distETag, distStatus, etries, distReads>>
    /\ UNCHANGED <<op, args, fetched, pushed, configReads, updateCalls, seenDist,
                   returned, logged>>
    /\ UNCHANGED <<lambdaVars, restVars>>

\* Get Distribution answered inside checkStatus
StatusRead ==
    /\ epc = "polling"
    /\ seenDist' = seenDist \cup {distStatus}
    /\ LET outcome == CheckStatus(etries, distStatus)
       IN  CASE outcome = "false" ->
                  /\ ChainEnds(FALSE)
                  /\ epc' = "done"
                  /\ UNCHANGED <<etries, distReads>>
             [] outcome = "true" ->
                  /\ ChainEnds(TRUE)
                  /\ epc' = "done"
                  /\ UNCHANGED <<etries, distReads>>
             [] outcome = "again" ->
                  /\ etries' = etries - 1
                  /\ distReads' = distReads + 1
                  /\ UNCHANGED <<epc, settled, logged>>
    /\ UNCHANGED <<distConfig, distETag, distStatus, op, args, fetched, pushed,
                   configReads, updateCalls, returned>>
    /\ UNCHANGED <<lambdaVars, restVars>>

\* The service finishes propagating the distribution to the edge locations.
Propagate ==
    /\ distStatus = "InProgress"
    /\ distStatus' = "Deployed"
    /\ UNCHANGED <<distConfig, distETag, op, args, epc, fetched, pushed, etries,
                   configReads, updateCalls, distReads, seenDist, returned, settled,
                   logged>>
    /\ UNCHANGED <<lambdaVars, restVars>>

\* Another client updates the distribution: the service hands out a new entity
\* tag and starts propagating again.
ExternalUpdate ==
    /\ distETag < MaxETag
    /\ distETag' = distETag + 1
    /\ distStatus' = "InProgress"
    /\ UNCHANGED <<distConfig, op, args, epc, fetched, pushed, etries, configReads,
                   updateCalls, distReads, seenDist, returned, settled, logged>>
    /\ UNCHANGED <<lambdaVars, restVars>>

----------------------------------------------------------------------------
(* Specifications                                                          *)

LambdaIdle ==
    /\ publish = WhenChanged
    /\ lpc = "idle"
    /\ filePromise = "none"
    /\ checkPromise = "none"
    /\ lastFunctionData = NoData
    /\ newFunctionData = NoData
    /\ stableData = NoData
    /\ ltries = 0
    /\ updateCodeCalls = 0
    /\ statusReads = 0
    /\ seen = {}
    /\ publishCalls = 0
    /\ publishRevision = ""
    /\ providerVersion = NoVersion
    /\ result = Pending

DistIdle ==
    /\ op = "none"
    /\ args = NoArgs
    /\ epc = "idle"
    /\ fetched = NoResponse
    /\ pushed = [IfMatch |-> 0, CacheBehaviors |-> NoConfig]
    /\ etries = 0
    /\ configReads = 0
    /\ updateCalls = 0
    /\ distReads = 0
    /\ seenDist = {}
    /\ returned = "none"
    /\ settled = Pending
    /\ logged = ""

\* a caller of the two-caller scenario before its call
NoCaller == [pc |-> "idle", version |-> <<>>, fetched |-> NoResponse,
             pushed |-> [IfMatch |-> 0, CacheBehaviors |-> NoConfig],
             configReads |-> 0, updateCalls |-> 0, outcome |-> "none"]
Callers == {"c1", "c2"}

\* a recognised auth type, no client built yet, no second caller
RestIdle ==
    /\ authImpl = "throwing"
    /\ authType = "fromIni"
    /\ credentials = "none"
    /\ race = [c \in Callers |-> NoCaller]

\* Function Deployer: one deployFunction invocation of either implementation
InitLambda ==
    /\ impl \in {"waiting", "direct"}
    /\ RestIdle
    /\ LambdaIdle
    /\ DistIdle
    /\ distConfig = NoConfig
    /\ distETag = 1
    /\ distStatus = "Deployed"

NextLambda ==
    \/ \E p \in Publish : DeployFunction(p)
    \/ \E ok \in BOOLEAN : ReadZipAsBuffer(ok)
    \/ \E found \in BOOLEAN, response \in FunctionData(FunctionNames, {Successful}) :
           CheckFunction(found, response)
    \/ DeployCode
    \/ \E response \in FunctionData(FunctionNames, {InProgress}) :
           UpdateCodeResponse(response)
    \/ \E response \in FunctionData(FunctionNames, LastUpdateStatus \cup {NoStatus}) :
           StatusResponse(response)
    \/ \E version \in Versions \cup {NoVersion} : PublishResponse(version)

SpecLambda == InitLambda /\ [][NextLambda]_vars

\* Distribution Deployer: one invocation of either public operation on a
\* distribution that other clients and the service itself keep changing
InitEdge ==
    /\ impl = "waiting"
    /\ RestIdle
    /\ LambdaIdle
    /\ DistIdle
    /\ distConfig \in CacheBehaviorsSet(1, 1)
    /\ distETag = 1
    /\ distStatus \in {"InProgress", "Deployed"}

NextEdge ==
    \/ GetDistributionStatus
    \/ \E a \in ArnPrefixes, v \in FunctionVersions : DeployLamdaEdgeFunction(a, v)
    \/ ConfigResponse
    \/ UpdateResponse
    \/ StatusRead
    \/ Propagate
    \/ ExternalUpdate

SpecEdge == InitEdge /\ [][NextEdge]_vars

\* The cache-behavior rewrite on every configuration of the model universe:
\* deployLamdaEdgeFunction up to the point where the service took the push
InitRewrite ==
    /\ impl = "waiting"
    /\ RestIdle
    /\ LambdaIdle
    /\ DistIdle
    /\ distConfig \in CacheBehaviorsSet(MaxRules, MaxAssoc)
    /\ distETag = 1
    /\ distStatus = "Deployed"

NextRewrite ==
    \/ \E a \in ArnPrefixes, v \in FunctionVersions : DeployLamdaEdgeFunction(a, v)
    \/ ConfigResponse
    \/ UpdateResponse

SpecRewrite == InitRewrite /\ [][NextRewrite]_vars

----------------------------------------------------------------------------
(* Properties                                                              *)

\* deployFunction has taken the code upload's response into account
Uploaded == newFunctionData # NoData
SameHash == lastFunctionData.CodeSha256 = newFunctionData.CodeSha256

\* what the caller of a Distribution Deployer operation holds: the settlement of
\* the promise it was handed, or the plain value undefined
CallerSees ==
    IF returned = "promise" THEN settled
    ELSE IF returned = "thrown" THEN [kind |-> "thrown", value |-> ErrAuth]
    ELSE [kind |-> "value", value |-> "undefined"]

\* C1: a deployFunction called with publish = Never on an existing function and
\* a readable zip never issues Publish Version and resolves to the empty string.
C1_NeverPublishesNothing ==
    (publish = Never /\ filePromise = "fulfilled" /\ checkPromise = "fulfilled")
        => /\ publishCalls = 0
           /\ lpc = "done" => result = Resolved("")

\* C2: a deployFunction called with publish = WhenChanged whose upload returns the
\* content hash the existence check read resolves to the empty string (it does
\* not reject) and issues no Publish Version.
C2_UnchangedResolvesEmpty ==
    (publish = WhenChanged /\ Uploaded /\ SameHash)
        => /\ publishCalls = 0
           /\ lpc = "done" => result = Resolved("")

NothingIssuedAfterFailed ==
    (Failed \in seen) => (statusReads' = statusReads /\ publishCalls' = publishCalls)

\* C3: once a status read of the wait loop has reported Failed, deployFunction has
\* rejected with a fatal error (the Failed error, or the retries-exhausted error
\* when that read was the one issued with no tries left), has issued no Publish
\* Version, and issues no further status read or Publish Version afterwards.
C3_FailedIsFatal ==
    /\ [](Failed \in seen =>
             /\ lpc = "done"
             /\ result = Rejected(IF ltries > 0 THEN ErrFailed ELSE ErrExhausted)
             /\ publishCalls = 0)
    /\ [][NothingIssuedAfterFailed]_vars

C3_Witness ==
    /\ Failed \in seen
    /\ InProgress \in seen
    /\ statusReads = 3
    /\ result = Rejected(ErrFailed)
    /\ publishCalls = 0

\* C9: when every status read of the wait loop reported InProgress, deployFunction
\* rejects with the retries-exhausted error and no Publish Version is issued.
C9_AllInProgressExhausts ==
    (statusReads > 0 /\ seen \subseteq {InProgress})
        => /\ publishCalls = 0
           /\ lpc = "done" => result = Rejected(ErrExhausted)

C9_Witness ==
    /\ lpc = "done"
    /\ seen = {InProgress}
    /\ statusReads = FunctionTries + 1
    /\ result = Rejected(ErrExhausted)
    /\ publishCalls = 0

MatchesTarget(rule) ==
    /\ rule.PathPattern = args.target.pathPattern
    /\ rule.TargetOriginId = args.target.targetOrigin

FetchedRules == fetched.CacheBehaviors.Items
PushedRules == pushed.CacheBehaviors.Items
NewArn == args.arnWithoutVersion \o Colon \o args.lambdaFunctionVersion

\* C4: in the configuration that is pushed, every association of a rule matching
\* target whose fetched ARN starts with arnWithoutVersion has the ARN
\* arnWithoutVersion + ":" + lambdaFunctionVersion.
C4_MatchingAssociationsRepointed ==
    updateCalls > 0 =>
        \A i \in DOMAIN FetchedRules :
            MatchesTarget(FetchedRules[i]) =>
                \A j \in DOMAIN FetchedRules[i].LambdaFunctionAssociations.Items :
                    StartsWith(FetchedRules[i].LambdaFunctionAssociations.Items[j]
                                   .LambdaFunctionARN, args.arnWithoutVersion)
                    => /\ i \in DOMAIN PushedRules
                       /\ j \in DOMAIN PushedRules[i].LambdaFunctionAssociations.Items
                       /\ PushedRules[i].LambdaFunctionAssociations.Items[j]
                              .LambdaFunctionARN = NewArn

C4_Witness ==
    /\ updateCalls > 0
    /\ args.arnWithoutVersion = <<"f">>
    /\ args.lambdaFunctionVersion = <<"7">>
    /\ \E i \in DOMAIN FetchedRules :
         /\ MatchesTarget(FetchedRules[i])
         /\ \E j \in DOMAIN FetchedRules[i].LambdaFunctionAssociations.Items :
              /\ FetchedRules[i].LambdaFunctionAssociations.Items[j]
                     .LambdaFunctionARN = <<"f">>
              /\ PushedRules[i].LambdaFunctionAssociations.Items[j]
                     .LambdaFunctionARN = <<"f", ":", "7">>

\* C5: the pushed configuration has the rules and associations of the fetched one,
\* in the same number and order; a rule that does not match target, and an
\* association whose ARN does not start with arnWithoutVersion, is identical to the
\* fetched one; every association keeps its event type and include-body flag; a
\* list whose Quantity is <= 0 is pushed as fetched.
C5_RestUnchanged ==
    updateCalls > 0 =>
        /\ pushed.CacheBehaviors.Quantity = fetched.CacheBehaviors.Quantity
        /\ Len(PushedRules) = Len(FetchedRules)
        /\ fetched.CacheBehaviors.Quantity <= 0 => PushedRules = FetchedRules
        /\ \A i \in DOMAIN FetchedRules :
             LET before == FetchedRules[i]
                 after == PushedRules[i]
                 was == before.LambdaFunctionAssociations
                 is == after.LambdaFunctionAssociations
             IN  /\ after.PathPattern = before.PathPattern
                 /\ after.TargetOriginId = before.TargetOriginId
                 /\ ~MatchesTarget(before) => after = before
                 /\ is.Quantity = was.Quantity
                 /\ Len(is.Items) = Len(was.Items)
                 /\ was.Quantity <= 0 => is = was
                 /\ \A j \in DOMAIN was.Items :
                      /\ is.Items[j].EventType = was.Items[j].EventType
                      /\ is.Items[j].IncludeBody = was.Items[j].IncludeBody
                      /\ ~StartsWith(was.Items[j].LambdaFunctionARN,
                                     args.arnWithoutVersion)
                         => is.Items[j] = was.Items[j]

C5_Witness ==
    /\ updateCalls > 0
    /\ Len(FetchedRules) = 2
    /\ \E i, k \in DOMAIN FetchedRules :
         /\ MatchesTarget(FetchedRules[i])
         /\ FetchedRules[i].LambdaFunctionAssociations.Quantity = 1
         /\ FetchedRules[i].LambdaFunctionAssociations.Items[1].IncludeBody
         /\ PushedRules[i].LambdaFunctionAssociations.Items[1].IncludeBody
         /\ PushedRules[i] # FetchedRules[i]
         /\ ~MatchesTarget(FetchedRules[k])
         /\ FetchedRules[k].LambdaFunctionAssociations.Quantity = 1
         /\ StartsWith(FetchedRules[k].LambdaFunctionAssociations.Items[1]
                           .LambdaFunctionARN, args.arnWithoutVersion)
         /\ PushedRules[k] = FetchedRules[k]

\* C6: Update Distribution carries the entity tag this invocation's Get
\* Distribution Config returned; when the service rejects the push for a stale
\* tag, the caller of deployLamdaEdgeFunction gets the failure, and the invocation
\* has issued one Update Distribution and no Get Distribution.
C6_StaleTagReachesCaller ==
    /\ updateCalls > 0 => pushed.IfMatch = fetched.ETag
    /\ settled = Rejected("PreconditionFailed")
         => /\ CallerSees.kind = "rejected"
            /\ updateCalls = 1
            /\ distReads = 0

\* C7: deployLamdaEdgeFunction delivers to its caller true when a status read
\* after the push reported Deployed within the budget, false when the budget ran
\* out.
C7_CallerGetsBoolean ==
    (op = "deployLamdaEdgeFunction" /\ epc = "done" /\ logged # "")
        => CallerSees = Resolved(logged = LogDeployed)

\* C8: getDistributionStatus, when every Get Distribution read reports
\* InProgress, resolves to false after exactly 10 Get Distribution calls.
C8_FalseAfterTenReads ==
    (op = "getDistributionStatus" /\ epc = "done" /\ seenDist = {"InProgress"})
        => /\ CallerSees = Resolved(FALSE)
           /\ distReads = 10


\* C11: getDistributionStatus resolves to true at the first Get Distribution read
\* that reports Deployed and issues no read after it; when the first read reports
\* Deployed it has issued exactly one call.
C11_TrueAtFirstDeployed ==
    (op = "getDistributionStatus" /\ "Deployed" \in seenDist)
        => /\ epc = "done"
           /\ CallerSees = Resolved(TRUE)
           /\ seenDist = {"Deployed"} => distReads = 1


\* One invocation of one public operation under every auth configuration
InitAuth ==
    /\ impl \in {"waiting", "direct"}
    /\ authImpl \in {"null", "throwing"}
    /\ authType \in {"fromIni", "unknown"}
    /\ credentials = "none"
    /\ race = [c \in Callers |-> NoCaller]
    /\ LambdaIdle
    /\ DistIdle
    /\ distConfig \in CacheBehaviorsSet(1, 1)
    /\ distETag = 1
    /\ distStatus = "InProgress"

NextAuth ==
    \/ epc = "idle" /\ \E p \in Publish : DeployFunction(p)
    \/ \E ok \in BOOLEAN : ReadZipAsBuffer(ok)
    \/ \E found \in BOOLEAN, response \in FunctionData(FunctionNames, {Successful}) :
           CheckFunction(found, response)
    \/ DeployCode
    \/ lpc = "idle" /\ GetDistributionStatus
    \/ lpc = "idle" /\ \E a \in ArnPrefixes, v \in FunctionVersions :
                           DeployLamdaEdgeFunction(a, v)
    \/ ConfigResponse
    \/ StatusRead
    \/ Propagate

SpecAuth == InitAuth /\ [][NextAuth]_vars

\* a cloud API call has been issued
ApiCallIssued ==
    \/ checkPromise # "none"
    \/ updateCodeCalls + statusReads + publishCalls > 0
    \/ configReads + updateCalls + distReads > 0

\* C12: with an auth type other than "fromIni", getCredentials fails (it returns
\* no absent value), and deployFunction, getDistributionStatus and
\* deployLamdaEdgeFunction fail before any cloud API call is issued.
C12_UnknownAuthFailsFast ==
    (authType # "fromIni" /\ (lpc # "idle" \/ epc # "idle"))
        => /\ credentials = "throw"
           /\ ~ApiCallIssued
           /\ lpc # "idle" => result = Rejected(ErrAuth)
           /\ epc # "idle" => CallerSees.kind = "thrown"


\* C13: a Publish Version call is issued only after a Get Function Configuration
\* read made after the Update Function Code response reported Successful; none
\* is issued while the last observed status is InProgress.
C13_PublishOnlyAfterSuccessful ==
    publishCalls > 0
        => /\ statusReads > 0
           /\ Successful \in seen
           /\ stableData.LastUpdateStatus = Successful

\* C14: the Publish Version call carries the RevisionId of the configuration the
\* status read that reported Successful returned, not the one Update Function
\* Code returned nor the one the existence check read.
C14_PublishesStableRevision ==
    publishCalls > 0
        => /\ stableData # NoData
           /\ publishRevision = stableData.RevisionId



\* C15: the zip read and the existence check are in flight together; Update
\* Function Code is issued only when both have completed successfully, whichever
\* completes first; when either fails the operation rejects and issues neither
\* Update Function Code nor Publish Version.
C15_UploadOnlyAfterBothReads ==
    /\ updateCodeCalls > 0
         => (filePromise = "fulfilled" /\ checkPromise = "fulfilled")
    /\ (filePromise = "rejected" \/ checkPromise = "rejected")
         => /\ lpc = "done"
            /\ result.kind = "rejected"
            /\ result.value \in {ErrFileRead, ErrNotFound}
            /\ updateCodeCalls = 0
            /\ publishCalls = 0

C15_Witness ==
    /\ filePromise = "fulfilled"
    /\ checkPromise = "rejected"
    /\ result = Rejected(ErrNotFound)
    /\ updateCodeCalls = 0
    /\ publishCalls = 0


----------------------------------------------------------------------------
(* Two callers of deployLamdaEdgeFunction on one distribution.  Each caller *)
(* runs the chain of deployLamdaEdgeFunction on its own client; the chain   *)
(* is followed up to the answer to its Update Distribution.                 *)

RaceArn == <<"f">>

\* deployLamdaEdgeFunction called by c: issues Get Distribution Config
RaceCall(c, version) ==
    /\ race[c].pc = "idle"
    /\ GetCredentials # "throw"
    /\ credentials' = GetCredentials
    /\ race' = [race EXCEPT ![c].pc = "fetching",
                            ![c].version = version,
                            ![c].configReads = @ + 1]
    /\ UNCHANGED <<lambdaVars, distVars, authImpl, authType>>

\* c's Get Distribution Config answered: the rewrite, then Update Distribution
RaceConfigResponse(c) ==
    /\ race[c].pc = "fetching"
    /\ LET response == [ETag |-> distETag, CacheBehaviors |-> distConfig]
           updated == UpdateCacheBehaviorLambdaFunctionVersion(
                          Target, RaceArn, race[c].version, response)
       IN  race' = IF updated.kind = "rejected"
                   THEN [race EXCEPT ![c].pc = "done",
                                     ![c].fetched = response,
                                     ![c].outcome = updated.value]
                   ELSE [race EXCEPT ![c].pc = "pushing",
                                     ![c].fetched = response,
                                     ![c].pushed =
                                         DeployDistributionConfig(updated.value),
                                     ![c].updateCalls = @ + 1]
    /\ UNCHANGED <<lambdaVars, distVars, authImpl, authType, credentials>>

\* c's chain re-reading the configuration after a rejected push
RaceUpdateResponse_Retries(c) ==
    /\ race[c].pc = "pushing"
    /\ IF race[c].pushed.IfMatch = distETag
       THEN /\ distConfig' = race[c].pushed.CacheBehaviors
            /\ distETag' = distETag + 1
            /\ distStatus' = "InProgress"
            /\ race' = [race EXCEPT ![c].pc = "polling", ![c].outcome = "pushed"]
       ELSE /\ race' = [race EXCEPT ![c].pc = "fetching",
                                    ![c].configReads = @ + 1]
            /\ UNCHANGED <<distConfig, distETag, distStatus>>
    /\ UNCHANGED <<lambdaVars, op, args, epc, fetched, pushed, etries, configReads,
                   updateCalls, distReads, seenDist, returned, settled, logged,
                   authImpl, authType, credentials>>

\* c's Update Distribution answered: applied when IfMatch is the service's
\* current entity tag, rejected otherwise; a rejection ends c's chain
RaceUpdateResponse(c) ==
    /\ race[c].pc = "pushing"
    /\ IF race[c].pushed.IfMatch = distETag
       THEN /\ distConfig' = race[c].pushed.CacheBehaviors
            /\ distETag' = distETag + 1
            /\ distStatus' = "InProgress"
            /\ race' = [race EXCEPT ![c].pc = "polling", ![c].outcome = "pushed"]
       ELSE /\ race' = [race EXCEPT ![c].pc = "done",
                                    ![c].outcome = "PreconditionFailed"]
            /\ UNCHANGED <<distConfig, distETag, distStatus>>
    /\ UNCHANGED <<lambdaVars, op, args, epc, fetched, pushed, etries, configReads,
                   updateCalls, distReads, seenDist, returned, settled, logged,
                   authImpl, authType, credentials>>

InitRace ==
    /\ impl = "waiting"
    /\ RestIdle
    /\ LambdaIdle
    /\ DistIdle
    /\ distConfig \in CacheBehaviorsSet(MaxRules, 1)
    /\ distETag = 1
    /\ distStatus = "Deployed"

NextRace ==
    \/ \E c \in Callers, v \in FunctionVersions : RaceCall(c, v)
    \/ \E c \in Callers : RaceConfigResponse(c)
    \/ \E c \in Callers : RaceUpdateResponse(c)

SpecRace == InitRace /\ [][NextRace]_vars

Answered(c) == race[c].outcome \in {"pushed", "PreconditionFailed"}
SameTagFetched == race["c1"].fetched.ETag = race["c2"].fetched.ETag

\* C16: when two invocations fetched the same entity tag and both pushes have
\* been answered, exactly one Update Distribution succeeded, the other was
\* rejected for its stale tag, and the distribution holds the winner's rewrite;
\* no invocation ever issues a second Get Distribution Config or Update
\* Distribution.
C16_OneWinnerNoRetry ==
    /\ \A c \in Callers : race[c].configReads <= 1 /\ race[c].updateCalls <= 1
    /\ (SameTagFetched /\ \A c \in Callers : Answered(c))
         => \E w \in Callers :
              /\ race[w].outcome = "pushed"
              /\ distConfig = race[w].pushed.CacheBehaviors
              /\ distETag = race[w].fetched.ETag + 1
              /\ \A l \in Callers \ {w} :
                   /\ race[l].outcome = "PreconditionFailed"
                   /\ race[l].pc = "done"

C16_Witness ==
    /\ SameTagFetched
    /\ race["c1"].version = <<"7">>
    /\ race["c2"].version = <<"8">>
    /\ race["c2"].outcome = "pushed"
    /\ race["c1"].outcome = "PreconditionFailed"
    /\ distConfig = race["c2"].pushed.CacheBehaviors
    /\ distConfig # race["c1"].pushed.CacheBehaviors


\* C17: each polling loop issues at most 100 status reads: the wait of
\* deployFunction at most FunctionTries reads of the function configuration, the
\* wait of deployLamdaEdgeFunction at most DeployTries reads of the distribution.
C17_AtMostHundredReads ==
    /\ statusReads <= FunctionTries
    /\ op = "deployLamdaEdgeFunction" => distReads <= DeployTries

\* C18: the wait of deployFunction rejects with the retries-exhausted error only
\* if none of its reads reported Successful, and rejects with the Failed error
\* whenever one of its reads reported Failed; checkStatus resolves false only if
\* none of its reads reported Deployed.
C18_ExhaustedOnlyIfNeverSeen ==
    /\ result = Rejected(ErrExhausted) => Successful \notin seen
    /\ (lpc = "done" /\ Failed \in seen) => result = Rejected(ErrFailed)
    /\ (/\ op = "getDistributionStatus"
        /\ settled.kind = "resolved"
        /\ settled.value = FALSE) => "Deployed" \notin seenDist

RewriteWith(version, config) ==
    UpdateCacheBehaviors(args.target, args.arnWithoutVersion, version, config)

\* C19: for the fetched configuration and the arguments of the call, rewriting
\* twice with one version gives the configuration of rewriting once, and rewriting
\* with a version v1 and then with v2 gives the configuration of rewriting with
\* v2 alone.
C19_RewriteIdempotent ==
    fetched # NoResponse =>
        \A v1, v2 \in FunctionVersions :
            LET config == fetched.CacheBehaviors
            IN  /\ RewriteWith(v1, RewriteWith(v1, config)) = RewriteWith(v1, config)
                /\ RewriteWith(v2, RewriteWith(v1, config)) = RewriteWith(v2, config)

C19_Witness ==
    /\ updateCalls > 0
    /\ args.lambdaFunctionVersion = <<"7">>
    /\ pushed.CacheBehaviors # fetched.CacheBehaviors
    /\ RewriteWith(<<"7">>, pushed.CacheBehaviors) = pushed.CacheBehaviors
    /\ RewriteWith(<<"8">>, pushed.CacheBehaviors) # pushed.CacheBehaviors
    /\ RewriteWith(<<"8">>, pushed.CacheBehaviors)
           = RewriteWith(<<"8">>, fetched.CacheBehaviors)

\* C20: in a rule matching target, an association whose fetched ARN is neither
\* arnWithoutVersion nor arnWithoutVersion + ":" + a version is pushed as fetched.
C20_OtherFunctionsUntouched ==
    updateCalls > 0 =>
        \A i \in DOMAIN FetchedRules :
            MatchesTarget(FetchedRules[i]) =>
                \A j \in DOMAIN FetchedRules[i].LambdaFunctionAssociations.Items :
                    LET old == FetchedRules[i].LambdaFunctionAssociations.Items[j]
                    IN  (/\ old.LambdaFunctionARN # args.arnWithoutVersion
                         /\ ~StartsWith(old.LambdaFunctionARN,
                                        args.arnWithoutVersion \o Colon))
                        => PushedRules[i].LambdaFunctionAssociations.Items[j] = old

====
